---------------------------- MODULE Spec2Model ----------------------------
(***************************************************************************)
(* Model of orbit/pkg/table/user_exec/exec.go: the table generator that    *)
(* runs osquery under `launchctl asuser` once per requested user and       *)
(* merges the rows (Table.generate, ExecOsqueryLaunchctlParsed,            *)
(* ExecOsqueryLaunchctl).                                                  *)
(*                                                                         *)
(* A username and a constraint expression are sequences of one-character   *)
(* strings.  The captured standard output is an abstract JSON document.    *)
(* Time is counted in seconds; only waiting for the subprocess takes time. *)
(***************************************************************************)
EXTENDS Integers, Sequences, FiniteSets, TLC

\* ------------------------------------------------------------------ bounds

\* Longest list of constraints on the `user` column in one query.
MaxConstraints == 2

\* Longest run, in seconds, of a subprocess that exits by itself.
MaxDuration == 2

\* Calls of generate that run at the same time.
MaxCalls == 2

\* ------------------------------------------------------- program constants

\* generate passes 5 as timeoutSeconds (exec.go line 133).
TimeoutSeconds == 5

\* Variant of ModeChmod that leaves the mode as os.MkdirTemp set it.
ModeChmodRestricted == "0700"

\* os.MkdirTemp creates the directory with mode 0700; line 51 sets 0o755.
ModeMkdirTemp == "0700"
ModeChmod == "0755"

\* Variant of the allowlist below that also lets a semicolon through.
AllowedWithSemicolon ==
    {"a", "b", "c", "d", "e", "f", "g", "h", "i", "j", "k", "l", "m",
     "n", "o", "p", "q", "r", "s", "t", "u", "v", "w", "x", "y", "z",
     "A", "B", "C", "D", "E", "F", "G", "H", "I", "J", "K", "L", "M",
     "N", "O", "P", "Q", "R", "S", "T", "U", "V", "W", "X", "Y", "Z",
     "0", "1", "2", "3", "4", "5", "6", "7", "8", "9",
     "_", "-", ".", " ", ";"}

\* The characters a username may consist of.
allowedUsernameCharacters ==
    {"a", "b", "c", "d", "e", "f", "g", "h", "i", "j", "k", "l", "m",
     "n", "o", "p", "q", "r", "s", "t", "u", "v", "w", "x", "y", "z",
     "A", "B", "C", "D", "E", "F", "G", "H", "I", "J", "K", "L", "M",
     "N", "O", "P", "Q", "R", "S", "T", "U", "V", "W", "X", "Y", "Z",
     "0", "1", "2", "3", "4", "5", "6", "7", "8", "9",
     "_", "-", ".", " "}

\* ------------------------------------------------------------------ inputs

\* Constraint expressions a query may carry: two usernames and one value
\* with a character outside the allowlist.
Expressions == {<<"a">>, <<"b", "_">>, <<"a", ";">>}

\* The query contexts: no `user` predicate, or a list of constraints on it.
QueryContexts ==
    {[hasUser |-> FALSE, exprs |-> <<>>]} \cup
    {[hasUser |-> TRUE, exprs |-> e] :
        e \in UNION {[1..n -> Expressions] : n \in 0..MaxConstraints}}

\* A JSON value of the subprocess output: a string or a number.  Strings
\* are sequences of characters, like usernames.
JStr(s) == [t |-> "string", v |-> s]
JNum(s) == [t |-> "number", v |-> s]

\* What the subprocess may write to its standard output: bytes that are not
\* JSON, or an array of objects.
Malformed == [syntax |-> FALSE, items |-> <<>>]
JArray(items) == [syntax |-> TRUE, items |-> items]
Documents ==
    {Malformed,
     JArray(<<>>),
     JArray(<<("key" :> JStr(<<"v">>))>>),
     JArray(<<("key" :> JStr(<<"v">>)),
              ("key" :> JStr(<<"w">>)) @@ ("user" :> JStr(<<"m">>))>>),
     JArray(<<("key" :> JStr(<<"v">>)), ("key" :> JNum(<<"1">>))>>)}

NoBytes == [syntax |-> FALSE, items |-> <<"nil">>]

\* What the subprocess may write to its standard error: nothing, or a
\* message.
StderrTexts == {<<>>, <<"E">>}
NoDir == 0

Range(s) == {s[k] : k \in 1..Len(s)}

\* The orders in which a set may be listed (Go's map iteration).
Orderings(S) ==
    {s \in [1..Cardinality(S) -> S] :
        \A a, b \in 1..Cardinality(S) : a # b => s[a] # s[b]}

\* ------------------------------------------------------------------- state

VARIABLES
    queryContext,   \* the query's constraints (the input of generate)
    users,          \* line 124: the usernames, in the order of the loop
    idx,            \* line 132: position of the loop in users
    pc,             \* the statement generate is at
    results,        \* line 122: the rows collected so far
    retErr,         \* the error generate returns ("unset" before it returns)
    cancelled,      \* the caller's context is cancelled
    clock,          \* seconds since generate was called
    deadline,       \* line 22: the deadline of the invocation's context
    dirs,           \* the scratch directories that exist, with their mode
    dir,            \* line 45: the invocation's directory (NoDir: none)
    nextDir,        \* names os.MkdirTemp has handed out
    proc,           \* the invocation's subprocess
    stdout,         \* line 57: the captured standard output
    stderr,         \* line 57: the captured standard error
    errText,        \* line 61: the standard error text the error carries
    outBytes,       \* what ExecOsqueryLaunchctl returns
    err,            \* the error of the invocation ("nil": none)
    osqueryResults, \* what ExecOsqueryLaunchctlParsed returns
    stages,         \* history: the stages the invocation went through
    calls,          \* history: per username, what was done and when
    gen,            \* concurrent calls of generate: the locals of each
    fs              \* the scratch directories the concurrent calls share

\* The state of the concurrent calls; a single call leaves it alone.
cvars == <<gen, fs>>

vars == <<queryContext, users, idx, pc, results, retErr, cancelled, clock,
          deadline, dirs, dir, nextDir, proc, stdout, stderr, errText,
          outBytes, err, osqueryResults, stages, calls, cvars>>

\* The state of the single call; the concurrent calls leave it alone.
svars == <<queryContext, users, idx, pc, results, retErr, cancelled, clock,
           deadline, dirs, dir, nextDir, proc, stdout, stderr, errText,
           outBytes, err, osqueryResults, stages, calls>>

NoProc == [state |-> "none", user |-> <<>>, cwd |-> NoDir]

\* The concurrent calls of generate on one table.
Calls == 1..MaxCalls

\* The names os.MkdirTemp may give a directory: as many as there can be
\* directories at a time, so that a name is free whenever one is asked for.
DirNames == 1..MaxCalls

\* The locals of a call of generate on entry (those of the single call
\* above, per call; the text of the error, which no other call can see,
\* is left to the single call), with its history: outputs, per successful
\* invocation the username and what its process wrote.
CallStart(qc) ==
    [request |-> qc, pc |-> "generate", users |-> <<>>, idx |-> 1,
     results |-> <<>>, retErr |-> "unset", cancelled |-> FALSE,
     dir |-> NoDir, proc |-> NoProc, stdout |-> NoBytes,
     outBytes |-> NoBytes, err |-> "nil", osqueryResults |-> <<>>,
     outputs |-> <<>>]

NotCalled ==
    [CallStart([hasUser |-> FALSE, exprs |-> <<>>]) EXCEPT !.pc = "idle"]

\* lookups, mkdirs, spawns: how often each was attempted for the username;
\* startedAt, endedAt: when its invocation began and returned; fate: how its
\* process ended; output: what the process wrote; outcome: the error
\* ExecOsqueryLaunchctlParsed returned ("none": not returned yet);
\* afterCancel: the invocation began with the caller's context cancelled;
\* resolved: what user.Lookup found; status: the exit status of the process;
\* errOutput: what the process wrote to its standard error.
NoCall == [lookups |-> 0, mkdirs |-> 0, spawns |-> 0, startedAt |-> 0,
           endedAt |-> 0, fate |-> "none", output |-> NoBytes,
           outcome |-> "none", afterCancel |-> FALSE, resolved |-> "none",
           status |-> "none", errOutput |-> <<>>]

Init ==
    /\ queryContext \in QueryContexts
    /\ users = <<>>
    /\ idx = 1
    /\ pc = "generate"
    /\ results = <<>>
    /\ retErr = "unset"
    /\ cancelled = FALSE
    /\ clock = 0
    /\ deadline = 0
    /\ dirs = <<>>
    /\ dir = NoDir
    /\ nextDir = 0
    /\ proc = NoProc
    /\ stdout = NoBytes
    /\ stderr = <<>>
    /\ errText = <<>>
    /\ outBytes = NoBytes
    /\ err = "nil"
    /\ osqueryResults = <<>>
    /\ stages = <<>>
    /\ calls = [u \in Expressions |-> NoCall]
    /\ gen = [c \in Calls |-> NotCalled]
    /\ fs = <<>>

\* ------------------------------------------------- tablehelpers, json, rows

\* tablehelpers.WithAllowedCharacters: every character is in the allowlist.
ValidExpression(e) == \A k \in 1..Len(e) : e[k] \in allowedUsernameCharacters

\* tablehelpers.GetConstraints(queryContext, "user", ...): the distinct
\* expressions constrained on the column that pass the allowlist; none when
\* the column is not constrained.
GetConstraints(qc) ==
    IF ~qc.hasUser THEN {}
    ELSE {e \in Range(qc.exprs) : ValidExpression(e)}

\* json.Unmarshal into []map[string]string: a syntax error decodes nothing;
\* a value that is not a string is a type error, reported after the rest of
\* the document was decoded (the offending entry is left empty).
Unmarshal(bytes) ==
    IF ~bytes.syntax THEN [rows |-> <<>>, err |-> "syntax"]
    ELSE LET items == bytes.items
             conv(obj) == [k \in DOMAIN obj |->
                             IF obj[k].t = "string" THEN obj[k].v ELSE <<>>]
             mismatch == \E n \in 1..Len(items) : \E k \in DOMAIN items[n] :
                             items[n][k].t # "string"
         IN  [rows |-> [n \in 1..Len(items) |-> conv(items[n])],
              err |-> IF mismatch THEN "type" ELSE "nil"]

\* Variant of Tagged that keeps a `user` value the row already has.
TaggedKeepingUser(rows, u) ==
    [n \in 1..Len(rows) |->
        [k \in DOMAIN rows[n] \cup {"user"} |->
            IF k \in DOMAIN rows[n] THEN rows[n][k] ELSE u]]

\* Lines 138-141: row["user"] = user for every row, in order.
Tagged(rows, u) ==
    [n \in 1..Len(rows) |->
        [k \in DOMAIN rows[n] \cup {"user"} |->
            IF k = "user" THEN u ELSE rows[n][k]]]

CtxDone == cancelled \/ clock >= deadline

\* The username of the loop's current iteration (line 132).
user == users[idx]

\* ---------------------------------------------------------------- generate

\* Variant of GenerateExtract without the len(users) == 0 check of line 128.
GenerateExtractWithoutCheck ==
    /\ pc = "generate"
    /\ pc' = "loop"
    /\ users' \in Orderings(GetConstraints(queryContext))
    /\ UNCHANGED <<cvars, stderr, errText, queryContext, idx, results,
                   retErr, cancelled, clock,
                   deadline, dirs, dir, nextDir, proc, stdout, outBytes, err,
                   osqueryResults, stages, calls>>

\* Lines 121-130: extract the usernames; none is an error of the call.  The
\* usernames come out of a Go map, in any order.
GenerateExtract ==
    /\ pc = "generate"
    /\ LET set == GetConstraints(queryContext)
       IN  IF set = {}
           THEN /\ pc' = "returned"
                /\ retErr' = "requires a user"
                /\ users' = <<>>
           ELSE /\ pc' = "loop"
                /\ users' \in Orderings(set)
                /\ UNCHANGED retErr
    /\ UNCHANGED <<cvars, stderr, errText, queryContext, idx, results,
                   cancelled, clock, deadline,
                   dirs, dir, nextDir, proc, stdout, outBytes, err, osqueryResults,
                   stages, calls>>

\* Lines 132-133, 67-68, 21-23: the loop takes the next username and calls
\* ExecOsqueryLaunchctlParsed, which calls ExecOsqueryLaunchctl, which
\* derives a context with the timeout from the caller's.
LoopNext ==
    /\ pc = "loop"
    /\ idx <= Len(users)
    /\ pc' = "lookup"
    /\ deadline' = clock + TimeoutSeconds
    /\ dir' = NoDir
    /\ proc' = NoProc
    /\ stdout' = NoBytes
    /\ stderr' = <<>>
    /\ errText' = <<>>
    /\ outBytes' = NoBytes
    /\ err' = "nil"
    /\ osqueryResults' = <<>>
    /\ stages' = <<>>
    /\ calls' = [calls EXCEPT ![user].startedAt = clock,
                              ![user].afterCancel = cancelled]
    /\ UNCHANGED <<cvars, queryContext, users, idx, results, retErr, cancelled,
                   clock, dirs, nextDir>>

\* Line 143: the loop is over; generate returns the rows and no error.
GenerateReturn ==
    /\ pc = "loop"
    /\ idx > Len(users)
    /\ pc' = "returned"
    /\ retErr' = "nil"
    /\ UNCHANGED <<cvars, stderr, errText, queryContext, users, idx,
                   results, cancelled, clock,
                   deadline, dirs, dir, nextDir, proc, stdout, outBytes, err,
                   osqueryResults, stages, calls>>

\* ---------------------------------------------------- ExecOsqueryLaunchctl

\* Variant of Lookup that goes on when user.Lookup fails.
LookupIgnoringError ==
    /\ pc = "lookup"
    /\ \E found \in BOOLEAN :
         /\ pc' = "mkdir"
         /\ stages' = Append(stages, "resolve")
         /\ calls' = [calls EXCEPT
                        ![user].lookups = @ + 1,
                        ![user].resolved = IF found THEN "found" ELSE "unknown"]
         /\ UNCHANGED err
    /\ UNCHANGED <<cvars, stderr, errText, queryContext, users, idx,
                   results, retErr, cancelled,
                   clock, deadline, dirs, dir, nextDir, proc, stdout, outBytes,
                   osqueryResults>>

\* Lines 25-43: user.Lookup; an unknown user ends the invocation before any
\* directory is made.  Building the command (lines 30-43) starts nothing.
Lookup ==
    /\ pc = "lookup"
    /\ \E found \in BOOLEAN :
         IF found
         THEN /\ pc' = "mkdir"
              /\ stages' = Append(stages, "resolve")
              /\ calls' = [calls EXCEPT ![user].lookups = @ + 1,
                                        ![user].resolved = "found"]
              /\ UNCHANGED err
         ELSE /\ pc' = "exec return"
              /\ err' = "lookup"
              /\ calls' = [calls EXCEPT ![user].lookups = @ + 1,
                                        ![user].resolved = "unknown"]
              /\ UNCHANGED stages
    /\ UNCHANGED <<cvars, stderr, errText, queryContext, users, idx,
                   results, retErr, cancelled,
                   clock, deadline, dirs, dir, nextDir, proc, stdout, outBytes,
                   osqueryResults>>

\* Lines 45-49: os.MkdirTemp makes a directory with a fresh name, or fails;
\* on success its removal is deferred.
MkdirTemp ==
    /\ pc = "mkdir"
    /\ \E made \in BOOLEAN :
         IF made
         THEN /\ pc' = "chmod"
              /\ nextDir' = nextDir + 1
              /\ dir' = nextDir + 1
              /\ dirs' = dirs @@ ((nextDir + 1) :> ModeMkdirTemp)
              /\ stages' = Append(stages, "workspace")
              /\ UNCHANGED err
         ELSE /\ pc' = "exec return"
              /\ err' = "mktemp"
              /\ UNCHANGED <<nextDir, dir, dirs, stages>>
    /\ calls' = [calls EXCEPT ![user].mkdirs = @ + 1]
    /\ UNCHANGED <<cvars, stderr, errText, queryContext, users, idx,
                   results, retErr, cancelled,
                   clock, deadline, proc, stdout, outBytes, osqueryResults>>

\* Lines 51-55: os.Chmod(dir, 0o755), or its failure.
Chmod ==
    /\ pc = "chmod"
    /\ \E changed \in BOOLEAN :
         IF changed
         THEN /\ pc' = "run"
              /\ dirs' = [dirs EXCEPT ![dir] = ModeChmod]
              /\ UNCHANGED err
         ELSE /\ pc' = "exec return"
              /\ err' = "chmod"
              /\ UNCHANGED dirs
    /\ UNCHANGED <<cvars, stderr, errText, queryContext, users, idx,
                   results, retErr, cancelled,
                   clock, deadline, dir, nextDir, proc, stdout, outBytes,
                   osqueryResults, stages, calls>>

\* Variant of CmdStart for a command not bound to the context
\* (exec.Command): it is started though the context is done.
CmdStartIgnoringContext ==
    /\ pc = "run"
    /\ \E spawned \in BOOLEAN :
         IF spawned
         THEN /\ pc' = "wait"
              /\ proc' = [state |-> "running", user |-> user, cwd |-> dir]
              /\ stages' = Append(stages, "execute")
              /\ calls' = [calls EXCEPT ![user].spawns = @ + 1]
              /\ UNCHANGED err
         ELSE /\ pc' = "exec return"
              /\ err' = "start"
              /\ UNCHANGED <<proc, stages, calls>>
    /\ errText' = IF pc' = "exec return" THEN stderr ELSE errText
    /\ UNCHANGED <<cvars, stderr, queryContext, users, idx, results, retErr,
                   cancelled,
                   clock, deadline, dirs, dir, nextDir, stdout, outBytes,
                   osqueryResults>>

\* Line 60, the start of cmd.Run: a command whose context is already done
\* is not started; otherwise the process is spawned in dir, or the spawn
\* fails.
CmdStart ==
    /\ pc = "run"
    /\ IF CtxDone
       THEN /\ pc' = "exec return"
            /\ err' = "context done"
            /\ UNCHANGED <<proc, stages, calls>>
       ELSE \E spawned \in BOOLEAN :
              IF spawned
              THEN /\ pc' = "wait"
                   /\ proc' = [state |-> "running", user |-> user, cwd |-> dir]
                   /\ stages' = Append(stages, "execute")
                   /\ calls' = [calls EXCEPT ![user].spawns = @ + 1]
                   /\ UNCHANGED err
              ELSE /\ pc' = "exec return"
                   /\ err' = "start"
                   /\ UNCHANGED <<proc, stages, calls>>
    /\ errText' = IF pc' = "exec return" THEN stderr ELSE errText
    /\ UNCHANGED <<cvars, stderr, queryContext, users, idx, results, retErr,
                   cancelled,
                   clock, deadline, dirs, dir, nextDir, stdout, outBytes,
                   osqueryResults>>

\* Variant of ProcExit that takes a non-zero exit for a success and returns
\* the captured output.
ProcExitReturningOutputOnFailure ==
    /\ pc = "wait"
    /\ proc.state = "running"
    /\ \E d \in 0..MaxDuration, zero \in BOOLEAN, doc \in Documents,
          text \in StderrTexts :
         /\ clock + d < deadline
         /\ cancelled => d = 0
         /\ clock' = clock + d
         /\ stdout' = doc
         /\ err' = "nil"
         /\ stderr' = text
         /\ errText' = IF zero THEN errText ELSE text
         /\ calls' = [calls EXCEPT
                        ![user].fate = "exited",
                        ![user].output = doc,
                        ![user].errOutput = text,
                        ![user].status = IF zero THEN "zero" ELSE "nonzero"]
    /\ proc' = [proc EXCEPT !.state = "exited"]
    /\ pc' = "exec return"
    /\ UNCHANGED <<cvars, queryContext, users, idx, results, retErr, cancelled,
                   deadline, dirs, dir, nextDir, outBytes, osqueryResults,
                   stages>>

\* Lines 60-64, cmd.Run returning because the process exited by itself,
\* before the deadline: a zero exit is no error, a non-zero exit is one.
\* Once the context is cancelled the kill is immediate, and only an exit at
\* that very moment can still win the race.
ProcExit ==
    /\ pc = "wait"
    /\ proc.state = "running"
    /\ \E d \in 0..MaxDuration, zero \in BOOLEAN, doc \in Documents,
          text \in StderrTexts :
         /\ clock + d < deadline
         /\ cancelled => d = 0
         /\ clock' = clock + d
         /\ stdout' = doc
         /\ err' = IF zero THEN "nil" ELSE "exit status"
         /\ stderr' = text
         /\ errText' = IF zero THEN errText ELSE text
         /\ calls' = [calls EXCEPT
                        ![user].fate = "exited",
                        ![user].output = doc,
                        ![user].errOutput = text,
                        ![user].status = IF zero THEN "zero" ELSE "nonzero"]
    /\ proc' = [proc EXCEPT !.state = "exited"]
    /\ pc' = "exec return"
    /\ UNCHANGED <<cvars, queryContext, users, idx, results, retErr, cancelled,
                   deadline, dirs, dir, nextDir, outBytes, osqueryResults,
                   stages>>

\* Variant of DeadlineKill in which cmd.Run returns at the deadline without
\* the process being killed and reaped.
DeadlineReturnLeavingProcess ==
    /\ pc = "wait"
    /\ proc.state = "running"
    /\ ~cancelled
    /\ clock' = deadline
    /\ err' = "deadline exceeded"
    /\ calls' = [calls EXCEPT ![user].fate = "deadline"]
    /\ \E text \in StderrTexts :
         /\ stderr' = text
         /\ errText' = IF err' = "nil" THEN errText ELSE text
    /\ pc' = "exec return"
    /\ UNCHANGED <<cvars, queryContext, users, idx, results, retErr, cancelled,
                   deadline, dirs, dir, nextDir, proc, stdout, outBytes,
                   osqueryResults, stages>>

\* Variant of DeadlineKill in which the killed run returns what it captured,
\* with no error.
DeadlineKillReturningOutput ==
    /\ pc = "wait"
    /\ proc.state = "running"
    /\ ~cancelled
    /\ clock' = deadline
    /\ proc' = [proc EXCEPT !.state = "killed"]
    /\ \E doc \in Documents :
         /\ stdout' = doc
         /\ calls' = [calls EXCEPT ![user].fate = "deadline",
                                   ![user].output = doc]
    /\ err' = "nil"
    /\ \E text \in StderrTexts :
         /\ stderr' = text
         /\ errText' = IF err' = "nil" THEN errText ELSE text
    /\ pc' = "exec return"
    /\ UNCHANGED <<cvars, queryContext, users, idx, results, retErr, cancelled,
                   deadline, dirs, dir, nextDir, outBytes, osqueryResults,
                   stages>>

\* Lines 22, 30, 60: the process is still running when the deadline of the
\* context expires; exec.CommandContext kills it and cmd.Run returns the
\* error.
DeadlineKill ==
    /\ pc = "wait"
    /\ proc.state = "running"
    /\ ~cancelled
    /\ clock' = deadline
    /\ proc' = [proc EXCEPT !.state = "killed"]
    /\ err' = "deadline exceeded"
    /\ calls' = [calls EXCEPT ![user].fate = "deadline"]
    /\ \E text \in StderrTexts :
         /\ stderr' = text
         /\ errText' = IF err' = "nil" THEN errText ELSE text
    /\ pc' = "exec return"
    /\ UNCHANGED <<cvars, queryContext, users, idx, results, retErr, cancelled,
                   deadline, dirs, dir, nextDir, stdout, outBytes,
                   osqueryResults, stages>>

\* Variant of CancelKill in which cmd.Run returns on cancellation without
\* the process being killed (a command not bound to the context).
CancelKillLeavingProcess ==
    /\ pc = "wait"
    /\ proc.state = "running"
    /\ cancelled
    /\ err' = "context canceled"
    /\ calls' = [calls EXCEPT ![user].fate = "cancelled"]
    /\ \E text \in StderrTexts :
         /\ stderr' = text
         /\ errText' = IF err' = "nil" THEN errText ELSE text
    /\ pc' = "exec return"
    /\ UNCHANGED <<cvars, queryContext, users, idx, results, retErr, cancelled,
                   clock, deadline, dirs, dir, nextDir, proc, stdout,
                   outBytes, osqueryResults, stages>>

\* Lines 22, 30, 60: the caller's context is cancelled while the process is
\* running; the derived context is done, exec.CommandContext kills the
\* process and cmd.Run returns the error.
CancelKill ==
    /\ pc = "wait"
    /\ proc.state = "running"
    /\ cancelled
    /\ proc' = [proc EXCEPT !.state = "killed"]
    /\ err' = "context canceled"
    /\ calls' = [calls EXCEPT ![user].fate = "cancelled"]
    /\ \E text \in StderrTexts :
         /\ stderr' = text
         /\ errText' = IF err' = "nil" THEN errText ELSE text
    /\ pc' = "exec return"
    /\ UNCHANGED <<cvars, queryContext, users, idx, results, retErr, cancelled,
                   clock, deadline, dirs, dir, nextDir, stdout, outBytes,
                   osqueryResults, stages>>

\* Variant of ExecReturn without the deferred os.RemoveAll of line 49.
ExecReturnWithoutRemoveAll ==
    /\ pc = "exec return"
    /\ outBytes' = IF err = "nil" THEN stdout ELSE NoBytes
    /\ calls' = [calls EXCEPT ![user].endedAt = clock]
    /\ pc' = "parsed"
    /\ UNCHANGED <<cvars, stderr, errText, queryContext, users, idx,
                   results, retErr, cancelled,
                   clock, deadline, dirs, dir, nextDir, proc, stdout, err,
                   osqueryResults, stages>>

\* Variant of ExecReturn that removes the directory on the successful
\* return only (os.RemoveAll before line 64 instead of deferred).
ExecReturnRemovingOnSuccessOnly ==
    /\ pc = "exec return"
    /\ IF dir # NoDir /\ err = "nil"
       THEN /\ dirs' = [d \in DOMAIN dirs \ {dir} |-> dirs[d]]
            /\ stages' = Append(stages, "cleanup")
       ELSE UNCHANGED <<dirs, stages>>
    /\ outBytes' = IF err = "nil" THEN stdout ELSE NoBytes
    /\ calls' = [calls EXCEPT ![user].endedAt = clock]
    /\ pc' = "parsed"
    /\ UNCHANGED <<cvars, stderr, errText, queryContext, users, idx,
                   results, retErr, cancelled,
                   clock, deadline, dir, nextDir, proc, stdout, err,
                   osqueryResults>>

\* ExecOsqueryLaunchctl returns (lines 27, 47, 52, 61, 64): the deferred
\* os.RemoveAll(dir) of line 49 runs if the directory was made, whatever the
\* path; the output is returned only without an error.
ExecReturn ==
    /\ pc = "exec return"
    /\ IF dir # NoDir
       THEN /\ dirs' = [d \in DOMAIN dirs \ {dir} |-> dirs[d]]
            /\ stages' = Append(stages, "cleanup")
       ELSE UNCHANGED <<dirs, stages>>
    /\ outBytes' = IF err = "nil" THEN stdout ELSE NoBytes
    /\ calls' = [calls EXCEPT ![user].endedAt = clock]
    /\ pc' = "parsed"
    /\ UNCHANGED <<cvars, stderr, errText, queryContext, users, idx,
                   results, retErr, cancelled,
                   clock, deadline, dir, nextDir, proc, stdout, err,
                   osqueryResults>>

\* ---------------------------------------------- ExecOsqueryLaunchctlParsed

\* Variant of Parsed that returns what json.Unmarshal decoded before its
\* error, with no error.
ParsedKeepingPartialRows ==
    /\ pc = "parsed"
    /\ IF err # "nil"
       THEN /\ osqueryResults' = <<>>
            /\ calls' = [calls EXCEPT ![user].outcome = err]
            /\ UNCHANGED <<err, stages>>
       ELSE /\ stages' = Append(stages, "decode")
            /\ osqueryResults' = Unmarshal(outBytes).rows
            /\ calls' = [calls EXCEPT ![user].outcome = "nil"]
            /\ UNCHANGED err
    /\ pc' = "body"
    /\ UNCHANGED <<cvars, stderr, errText, queryContext, users, idx,
                   results, retErr, cancelled,
                   clock, deadline, dirs, dir, nextDir, proc, stdout,
                   outBytes>>

\* Lines 68-80: an error of the run is passed on; otherwise the output is
\* decoded, and a decoding error returns no rows at all.
Parsed ==
    /\ pc = "parsed"
    /\ IF err # "nil"
       THEN /\ osqueryResults' = <<>>
            /\ calls' = [calls EXCEPT ![user].outcome = err]
            /\ UNCHANGED <<err, stages>>
       ELSE LET r == Unmarshal(outBytes)
            IN  /\ stages' = Append(stages, "decode")
                /\ IF r.err # "nil"
                   THEN /\ osqueryResults' = <<>>
                        /\ err' = "unmarshalling json"
                        /\ calls' = [calls EXCEPT
                                       ![user].outcome = "unmarshalling json"]
                   ELSE /\ osqueryResults' = r.rows
                        /\ calls' = [calls EXCEPT ![user].outcome = "nil"]
                        /\ UNCHANGED err
    /\ pc' = "body"
    /\ UNCHANGED <<cvars, stderr, errText, queryContext, users, idx,
                   results, retErr, cancelled,
                   clock, deadline, dirs, dir, nextDir, proc, stdout,
                   outBytes>>

\* ------------------------------------------------------ generate, the loop

\* Variant of LoopBody that returns the error of a failed invocation
\* instead of skipping it.
LoopBodyAborting ==
    /\ pc = "body"
    /\ IF err # "nil"
       THEN /\ pc' = "returned"
            /\ retErr' = err
            /\ UNCHANGED <<results, stages, idx>>
       ELSE /\ results' = results \o Tagged(osqueryResults, user)
            /\ stages' = Append(stages, "tag")
            /\ idx' = idx + 1
            /\ pc' = "loop"
            /\ UNCHANGED retErr
    /\ UNCHANGED <<cvars, stderr, errText, queryContext, users, cancelled,
                   clock, deadline,
                   dirs, dir, nextDir, proc, stdout, outBytes, err,
                   osqueryResults, calls>>

\* Variant of LoopBody that tries a failed username once more.
LoopBodyRetrying ==
    /\ pc = "body"
    /\ IF err # "nil"
       THEN /\ idx' = IF calls[user].lookups < 2 THEN idx ELSE idx + 1
            /\ UNCHANGED <<results, stages>>
       ELSE /\ results' = results \o Tagged(osqueryResults, user)
            /\ stages' = Append(stages, "tag")
            /\ idx' = idx + 1
    /\ pc' = "loop"
    /\ UNCHANGED <<cvars, stderr, errText, queryContext, users, retErr,
                   cancelled, clock, deadline,
                   dirs, dir, nextDir, proc, stdout, outBytes, err,
                   osqueryResults, calls>>

\* Variant of LoopBody that assigns the rows of the username to the results
\* instead of appending them.
LoopBodyOverwriting ==
    /\ pc = "body"
    /\ IF err # "nil"
       THEN UNCHANGED <<results, stages>>
       ELSE /\ results' = Tagged(osqueryResults, user)
            /\ stages' = Append(stages, "tag")
    /\ idx' = idx + 1
    /\ pc' = "loop"
    /\ UNCHANGED <<cvars, stderr, errText, queryContext, users, retErr,
                   cancelled, clock, deadline,
                   dirs, dir, nextDir, proc, stdout, outBytes, err,
                   osqueryResults, calls>>

\* Lines 134-142: a failed invocation is skipped; otherwise every row gets
\* the username and is appended to the results.
LoopBody ==
    /\ pc = "body"
    /\ IF err # "nil"
       THEN UNCHANGED <<results, stages>>
       ELSE /\ results' = results \o Tagged(osqueryResults, user)
            /\ stages' = Append(stages, "tag")
    /\ idx' = idx + 1
    /\ pc' = "loop"
    /\ UNCHANGED <<cvars, stderr, errText, queryContext, users, retErr,
                   cancelled, clock, deadline,
                   dirs, dir, nextDir, proc, stdout, outBytes, err,
                   osqueryResults, calls>>

\* ------------------------------------------------------------- environment

\* The caller cancels the context of the call, at any moment before
\* generate has returned.
Cancel ==
    /\ pc # "returned"
    /\ ~cancelled
    /\ cancelled' = TRUE
    /\ UNCHANGED <<cvars, stderr, errText, queryContext, users, idx, pc,
                   results, retErr, clock,
                   deadline, dirs, dir, nextDir, proc, stdout, outBytes, err,
                   osqueryResults, stages, calls>>

Next ==
    \/ GenerateExtract
    \/ LoopNext
    \/ GenerateReturn
    \/ Lookup
    \/ MkdirTemp
    \/ Chmod
    \/ CmdStart
    \/ ProcExit
    \/ DeadlineKill
    \/ CancelKill
    \/ ExecReturn
    \/ Parsed
    \/ LoopBody
    \/ Cancel

Spec == Init /\ [][Next]_vars

\* ------------------------------------------ concurrent calls of generate

\* generate keeps everything in locals (lines 121-144) and so does
\* ExecOsqueryLaunchctl (lines 21-65): each call c below has its own copy
\* in gen[c]; what the calls share is the file system, fs.

\* The constraints the concurrent calls are made with: the same username,
\* and a second one.
ConcurrentContexts ==
    {[hasUser |-> TRUE, exprs |-> <<<<"a">>>>],
     [hasUser |-> TRUE, exprs |-> <<<<"a">>, <<"b", "_">>>>]}

\* What the subprocesses of the concurrent calls write: two of Documents.
ConcurrentDocuments ==
    {JArray(<<("key" :> JStr(<<"v">>))>>),
     JArray(<<("key" :> JStr(<<"v">>)), ("key" :> JNum(<<"1">>))>>)}

ConcInit ==
    /\ gen \in [Calls -> {CallStart(qc) : qc \in ConcurrentContexts}]
    /\ fs = <<>>
    /\ queryContext = [hasUser |-> FALSE, exprs |-> <<>>]
    /\ users = <<>>
    /\ idx = 1
    /\ pc = "returned"
    /\ results = <<>>
    /\ retErr = "unset"
    /\ cancelled = FALSE
    /\ clock = 0
    /\ deadline = 0
    /\ dirs = <<>>
    /\ dir = NoDir
    /\ nextDir = 0
    /\ proc = NoProc
    /\ stdout = NoBytes
    /\ stderr = <<>>
    /\ errText = <<>>
    /\ outBytes = NoBytes
    /\ err = "nil"
    /\ osqueryResults = <<>>
    /\ stages = <<>>
    /\ calls = [u \in Expressions |-> NoCall]

\* The username of the invocation call c is in.
CUser(c) == gen[c].users[gen[c].idx]

\* Lines 124-130.
CGenerateExtract(c) ==
    /\ gen[c].pc = "generate"
    /\ LET set == GetConstraints(gen[c].request)
       IN  IF set = {}
           THEN gen' = [gen EXCEPT ![c].pc = "returned",
                                   ![c].retErr = "requires a user"]
           ELSE \E us \in Orderings(set) :
                  gen' = [gen EXCEPT ![c].pc = "loop", ![c].users = us]
    /\ UNCHANGED <<fs, svars>>

\* Lines 132-133 and 22: the next username.
CLoopNext(c) ==
    /\ gen[c].pc = "loop"
    /\ gen[c].idx <= Len(gen[c].users)
    /\ gen' = [gen EXCEPT ![c].pc = "lookup"]
    /\ UNCHANGED <<fs, svars>>

\* Line 143.
CGenerateReturn(c) ==
    /\ gen[c].pc = "loop"
    /\ gen[c].idx > Len(gen[c].users)
    /\ gen' = [gen EXCEPT ![c].pc = "returned", ![c].retErr = "nil"]
    /\ UNCHANGED <<fs, svars>>

\* Lines 25-28.
CLookup(c) ==
    /\ gen[c].pc = "lookup"
    /\ \E found \in BOOLEAN :
         IF found
         THEN gen' = [gen EXCEPT ![c].pc = "mkdir"]
         ELSE gen' = [gen EXCEPT ![c].pc = "exec return",
                                 ![c].err = "lookup"]
    /\ UNCHANGED <<fs, svars>>

\* Variant of CMkdirTemp that uses one fixed path, as os.MkdirAll would:
\* a directory that is already there is taken as it is.
CMkdirFixedPath(c) ==
    /\ gen[c].pc = "mkdir"
    /\ \E made \in BOOLEAN :
         IF made
         THEN /\ fs' = IF 1 \in DOMAIN fs THEN fs
                       ELSE fs @@ (1 :> [mode |-> ModeMkdirTemp,
                                         maker |-> <<c, gen[c].idx>>])
              /\ gen' = [gen EXCEPT ![c].pc = "chmod", ![c].dir = 1]
         ELSE /\ gen' = [gen EXCEPT ![c].pc = "exec return",
                                    ![c].err = "mktemp"]
              /\ UNCHANGED fs
    /\ UNCHANGED svars

\* Lines 45-48: os.MkdirTemp makes a new directory, of this invocation,
\* under a name that no existing directory has, or fails.
CMkdirTemp(c) ==
    /\ gen[c].pc = "mkdir"
    /\ \E made \in BOOLEAN :
         IF made
         THEN \E name \in DirNames \ DOMAIN fs :
                /\ fs' = fs @@ (name :> [mode |-> ModeMkdirTemp,
                                         maker |-> <<c, gen[c].idx>>])
                /\ gen' = [gen EXCEPT ![c].pc = "chmod", ![c].dir = name]
         ELSE /\ gen' = [gen EXCEPT ![c].pc = "exec return",
                                    ![c].err = "mktemp"]
              /\ UNCHANGED fs
    /\ UNCHANGED svars

\* Lines 51-53; os.Chmod fails on a path that is not there.
CChmod(c) ==
    /\ gen[c].pc = "chmod"
    /\ \E changed \in BOOLEAN :
         IF changed /\ gen[c].dir \in DOMAIN fs
         THEN /\ fs' = [fs EXCEPT ![gen[c].dir].mode = ModeChmod]
              /\ gen' = [gen EXCEPT ![c].pc = "run"]
         ELSE /\ gen' = [gen EXCEPT ![c].pc = "exec return",
                                    ![c].err = "chmod"]
              /\ UNCHANGED fs
    /\ UNCHANGED svars

\* Lines 55-60, cmd.Start: a subprocess of this invocation, in its
\* directory; none when the context is done or the directory is gone.
CCmdStart(c) ==
    /\ gen[c].pc = "run"
    /\ IF gen[c].cancelled
       THEN gen' = [gen EXCEPT ![c].pc = "exec return",
                               ![c].err = "context done"]
       ELSE \E spawned \in BOOLEAN :
              IF spawned /\ gen[c].dir \in DOMAIN fs
              THEN gen' = [gen EXCEPT
                             ![c].pc = "wait",
                             ![c].proc = [state |-> "running",
                                          user |-> CUser(c),
                                          cwd |-> gen[c].dir]]
              ELSE gen' = [gen EXCEPT ![c].pc = "exec return",
                                      ![c].err = "start"]
    /\ UNCHANGED <<fs, svars>>

\* Lines 57-62, cmd.Wait: the subprocess exits by itself.
CProcExit(c) ==
    /\ gen[c].pc = "wait"
    /\ gen[c].proc.state = "running"
    /\ \E zero \in BOOLEAN, doc \in ConcurrentDocuments :
         gen' = [gen EXCEPT
                   ![c].pc = "exec return",
                   ![c].proc.state = "exited",
                   ![c].stdout = doc,
                   ![c].err = IF zero THEN "nil" ELSE "exit status"]
    /\ UNCHANGED <<fs, svars>>

\* Lines 22 and 30: the timeout of this invocation ends its subprocess.
CDeadlineKill(c) ==
    /\ gen[c].pc = "wait"
    /\ gen[c].proc.state = "running"
    /\ ~gen[c].cancelled
    /\ gen' = [gen EXCEPT ![c].pc = "exec return",
                          ![c].proc.state = "killed",
                          ![c].err = "deadline exceeded"]
    /\ UNCHANGED <<fs, svars>>

\* Lines 22 and 30: the cancellation of this call ends its subprocess.
CCancelKill(c) ==
    /\ gen[c].pc = "wait"
    /\ gen[c].proc.state = "running"
    /\ gen[c].cancelled
    /\ gen' = [gen EXCEPT ![c].pc = "exec return",
                          ![c].proc.state = "killed",
                          ![c].err = "context canceled"]
    /\ UNCHANGED <<fs, svars>>

\* Lines 49 and 60-64: the deferred os.RemoveAll removes whatever is at
\* the path of this invocation; the output is returned on success only.
CExecReturn(c) ==
    /\ gen[c].pc = "exec return"
    /\ fs' = IF gen[c].dir # NoDir
             THEN [d \in DOMAIN fs \ {gen[c].dir} |-> fs[d]]
             ELSE fs
    /\ gen' = [gen EXCEPT
                 ![c].pc = "parsed",
                 ![c].outBytes = IF gen[c].err = "nil" THEN gen[c].stdout
                                 ELSE NoBytes]
    /\ UNCHANGED svars

\* Lines 67-81; the history keeps what a successful invocation read.
CParsed(c) ==
    /\ gen[c].pc = "parsed"
    /\ LET r == Unmarshal(gen[c].outBytes)
           e == IF gen[c].err # "nil" THEN gen[c].err
                ELSE IF r.err # "nil" THEN "unmarshalling json"
                ELSE "nil"
       IN  gen' = [gen EXCEPT
                     ![c].pc = "body",
                     ![c].err = e,
                     ![c].osqueryResults = IF e = "nil" THEN r.rows
                                           ELSE <<>>,
                     ![c].outputs = IF e # "nil" THEN @
                                    ELSE Append(@, [user |-> CUser(c),
                                                    output |-> gen[c].stdout])]
    /\ UNCHANGED <<fs, svars>>

\* Lines 134-141; the locals of the invocation end with it.
CLoopBody(c) ==
    /\ gen[c].pc = "body"
    /\ gen' = [gen EXCEPT
                 ![c].pc = "loop",
                 ![c].idx = @ + 1,
                 ![c].results =
                     IF gen[c].err # "nil" THEN @
                     ELSE @ \o Tagged(gen[c].osqueryResults, CUser(c)),
                 ![c].dir = NoDir,
                 ![c].proc = NoProc,
                 ![c].stdout = NoBytes,
                 ![c].outBytes = NoBytes,
                 ![c].err = "nil",
                 ![c].osqueryResults = <<>>]
    /\ UNCHANGED <<fs, svars>>

\* The context of call c is cancelled by its caller.
CCancel(c) ==
    /\ gen[c].pc # "returned"
    /\ ~gen[c].cancelled
    /\ gen' = [gen EXCEPT ![c].cancelled = TRUE]
    /\ UNCHANGED <<fs, svars>>

ConcNext ==
    \E c \in Calls :
        \/ CGenerateExtract(c)
        \/ CLoopNext(c)
        \/ CGenerateReturn(c)
        \/ CLookup(c)
        \/ CMkdirTemp(c)
        \/ CChmod(c)
        \/ CCmdStart(c)
        \/ CProcExit(c)
        \/ CDeadlineKill(c)
        \/ CCancelKill(c)
        \/ CExecReturn(c)
        \/ CParsed(c)
        \/ CLoopBody(c)
        \/ CCancel(c)

SpecConcurrent == ConcInit /\ [][ConcNext]_vars

\* ------------------------------------------------------ what the claims use

Returned == pc = "returned"

\* The invocation of the current username has returned to generate.
InvocationOver == pc \in {"parsed", "body", "loop", "returned"}

\* The usernames whose invocation has begun.
Begun == {u \in Range(users) : calls[u].lookups > 0}

\* The records of a well-formed document, as rows.
RowsOfDocument(doc) ==
    [n \in 1..Len(doc.items) |->
        [k \in DOMAIN doc.items[n] |-> doc.items[n][k].v]]

WithUser(row, u) == (("user" :> u) @@ row)

\* The rows the first k usernames are expected to contribute: those of the
\* documents of the usernames whose run and decoding succeeded, each row
\* with the username, in the order of the loop.
RECURSIVE ExpectedRows(_)
ExpectedRows(k) ==
    IF k = 0 THEN <<>>
    ELSE LET u == users[k]
             rows == RowsOfDocument(calls[u].output)
         IN  ExpectedRows(k - 1) \o
             (IF calls[u].outcome = "nil"
              THEN [n \in 1..Len(rows) |-> WithUser(rows[n], u)]
              ELSE <<>>)

\* The username whose invocation produced each of the rows of the first k
\* usernames.
RECURSIVE Producers(_)
Producers(k) ==
    IF k = 0 THEN <<>>
    ELSE LET u == users[k]
         IN  Producers(k - 1) \o
             (IF calls[u].outcome = "nil"
              THEN [n \in 1..Len(calls[u].output.items) |-> u]
              ELSE <<>>)

RowsTagged(u) == {n \in 1..Len(results) : results[n]["user"] = u}

Failures == {"lookup", "mktemp", "chmod", "start", "context done",
             "exit status", "deadline exceeded", "context canceled",
             "unmarshalling json"}

\* C1: a call with at least one username returns no error whatever happens
\* to the users, and returns exactly the rows decoded for the users whose
\* run and decoding succeeded, each with its username; nothing if all fail.
C1_NoCallErrorAndRowsOfSucceeding ==
    (Returned /\ users # <<>>) =>
        /\ retErr = "nil"
        /\ results = ExpectedRows(Len(users))
        /\ (\A u \in Range(users) : calls[u].outcome # "nil") => results = <<>>

C1_Witness ==
    /\ Returned
    /\ \E u, v \in Range(users) :
         /\ calls[u].outcome = "nil"
         /\ RowsTagged(u) # {}
         /\ calls[v].outcome = "deadline exceeded"
         /\ RowsTagged(v) = {}

\* C2: with no username left by the extractor (no `user` predicate, or every
\* value dropped by the allowlist), generate returns the missing-constraint
\* error and no rows, and has looked up no user, made no directory and
\* spawned no process.
C2_MissingConstraint ==
    GetConstraints(queryContext) = {} =>
        /\ pc \in {"generate", "returned"}
        /\ Returned => retErr = "requires a user" /\ results = <<>>
        /\ \A e \in Expressions :
             calls[e].lookups = 0 /\ calls[e].mkdirs = 0 /\ calls[e].spawns = 0
        /\ nextDir = 0 /\ DOMAIN dirs = {} /\ proc.state = "none"

C2_Witness ==
    /\ Returned
    /\ retErr = "requires a user"
    /\ queryContext.hasUser
    /\ Len(queryContext.exprs) > 0

\* C3: every returned row carries as `user` the username of the invocation
\* that produced it, a requested username, even when the output of the
\* subprocess had a `user` key of its own.
C3_RowsCarryTheirUser ==
    (pc \in {"loop", "returned"}) =>
        /\ Len(results) = Len(Producers(idx - 1))
        /\ \A n \in 1..Len(results) :
             /\ "user" \in DOMAIN results[n]
             /\ results[n]["user"] = Producers(idx - 1)[n]
             /\ results[n]["user"] \in Range(queryContext.exprs)

C3_Witness ==
    /\ Returned
    /\ \E u \in Range(users) :
         /\ calls[u].outcome = "nil"
         /\ \E n \in 1..Len(calls[u].output.items) :
              /\ "user" \in DOMAIN calls[u].output.items[n]
              /\ calls[u].output.items[n]["user"].v # u
         /\ RowsTagged(u) # {}

\* C4: once an invocation has returned, and so when generate returns, no
\* scratch directory made by the call exists, whichever way the invocation
\* ended.
C4_NoWorkspaceLeft ==
    InvocationOver => DOMAIN dirs = {}

C4_Witness ==
    /\ Returned
    /\ nextDir = 2
    /\ \E u, v \in Range(users) :
         /\ calls[u].outcome = "chmod"
         /\ calls[v].outcome \in Failures \ {"chmod"}

\* Position of a username in the loop.
Position(u) == CHOOSE k \in 1..Len(users) : users[k] = u

\* C5: a failure to make the scratch directory for a user aborts the whole
\* call: generate returns an error and does not go on to the users after it.
C5_MkdirFailureAbortsCall ==
    \A u \in Range(users) :
        (Returned /\ calls[u].outcome = "mktemp") =>
            /\ retErr # "nil"
            /\ \A v \in Range(users) :
                 Position(v) > Position(u) => calls[v].lookups = 0

\* C6, as claimed: a subprocess still running at its deadline is killed, its
\* invocation returns an error and contributes no row, and the users after
\* it are not delayed: none of them has to wait for that deadline.
C6_TimeoutWithoutDelay ==
    \A u \in Range(users) :
        calls[u].fate = "deadline" =>
            /\ proc.user = u => proc.state = "killed"
            /\ calls[u].outcome \in {"none", "deadline exceeded"}
            /\ RowsTagged(u) = {}
            /\ \A v \in Begun :
                 Position(v) > Position(u) =>
                     calls[v].startedAt < calls[u].startedAt + TimeoutSeconds

\* C6, amended: a subprocess still running at its deadline is killed at the
\* deadline, its invocation returns an error and contributes no row, and
\* generate goes on to every user after it; the loop being sequential, each
\* of them begins only once that deadline has passed.
C6_TimeoutKillsSkipsAndContinues ==
    \A u \in Range(users) :
        calls[u].fate = "deadline" =>
            /\ proc.user = u => proc.state = "killed"
            /\ calls[u].outcome \in {"none", "deadline exceeded"}
            /\ InvocationOver \/ proc.user # u =>
                 calls[u].endedAt = calls[u].startedAt + TimeoutSeconds
            /\ RowsTagged(u) = {}
            /\ Returned => retErr = "nil" /\ Begun = Range(users)
            /\ \A v \in Begun :
                 Position(v) > Position(u) =>
                     calls[v].startedAt >= calls[u].startedAt + TimeoutSeconds

C6_Witness ==
    /\ Returned
    /\ \E u, v \in Range(users) :
         /\ calls[u].fate = "deadline"
         /\ Position(v) > Position(u)
         /\ calls[v].outcome = "nil"
         /\ RowsTagged(v) # {}

\* C7: once the caller's context is cancelled, no subprocess of the call
\* outlives its invocation, so none runs when generate returns, and every
\* scratch directory of the call is removed all the same.
C7_CancellationKillsAndCleans ==
    (cancelled /\ InvocationOver) =>
        /\ proc.state # "running"
        /\ DOMAIN dirs = {}
        /\ \A u \in Range(users) :
             calls[u].spawns > 0 /\ (pc = "loop" \/ Returned \/ u # user)
                 => calls[u].fate \in {"exited", "deadline", "cancelled"}

C7_Witness ==
    /\ Returned
    /\ cancelled
    /\ \E u \in Range(users) :
         /\ calls[u].fate = "cancelled"
         /\ calls[u].mkdirs = 1
         /\ proc.user = u
         /\ proc.state = "killed"

\* The allowlist as the specification words it: letters, digits, underscore,
\* hyphen, period, space.
Letters ==
    {"a", "b", "c", "d", "e", "f", "g", "h", "i", "j", "k", "l", "m",
     "n", "o", "p", "q", "r", "s", "t", "u", "v", "w", "x", "y", "z",
     "A", "B", "C", "D", "E", "F", "G", "H", "I", "J", "K", "L", "M",
     "N", "O", "P", "Q", "R", "S", "T", "U", "V", "W", "X", "Y", "Z"}
Digits == {"0", "1", "2", "3", "4", "5", "6", "7", "8", "9"}
OnlyAllowlisted(e) ==
    \A k \in 1..Len(e) : e[k] \in Letters \cup Digits \cup {"_", "-", ".", " "}

\* An invocation is under way for the current username.
InInvocation ==
    pc \in {"lookup", "mkdir", "chmod", "run", "wait", "exec return",
            "parsed", "body"}

\* C8: a constraint value with a character outside the allowlist never
\* becomes a username: it is never looked up and never given to a
\* subprocess, while the allowlisted values of the same query are processed.
C8_OnlyAllowlistedUsernames ==
    /\ \A k \in 1..Len(users) : OnlyAllowlisted(users[k])
    /\ InInvocation => OnlyAllowlisted(user)
    /\ proc.state # "none" => OnlyAllowlisted(proc.user)
    /\ \A e \in Expressions :
         ~OnlyAllowlisted(e) =>
             calls[e].lookups = 0 /\ calls[e].mkdirs = 0 /\ calls[e].spawns = 0
    /\ (Returned /\ queryContext.hasUser) =>
         \A e \in Range(queryContext.exprs) :
             OnlyAllowlisted(e) => calls[e].lookups = 1

C8_Witness ==
    /\ Returned
    /\ \E bad, good \in Range(queryContext.exprs) :
         /\ ~OnlyAllowlisted(bad)
         /\ OnlyAllowlisted(good)
         /\ calls[good].spawns = 1
         /\ RowsTagged(good) # {}

\* The stages of an invocation occur in the order of increasing rank.
StagesOrderedBy(rank) ==
    \A a, b \in 1..Len(stages) : a < b => rank[stages[a]] < rank[stages[b]]

Before(s, t) ==
    \A b \in 1..Len(stages) :
        stages[b] = t => \E a \in 1..(b - 1) : stages[a] = s

\* C9, as claimed: the stages of one invocation occur in the order resolve,
\* workspace, execute, decode, tag, cleanup, the directory being removed
\* only after decoding and tagging.
C9_CleanupAfterDecodeAndTag ==
    StagesOrderedBy([resolve |-> 1, workspace |-> 2, execute |-> 3,
                     decode |-> 4, tag |-> 5, cleanup |-> 6])

\* C9, amended: the stages of one invocation occur in the order resolve,
\* workspace, execute, cleanup, decode, tag, none without the ones it needs:
\* the directory is removed when the run returns, before the output is
\* decoded and the rows get the username.
C9_CleanupBeforeDecodeAndTag ==
    /\ StagesOrderedBy([resolve |-> 1, workspace |-> 2, execute |-> 3,
                        cleanup |-> 4, decode |-> 5, tag |-> 6])
    /\ Before("resolve", "workspace")
    /\ Before("workspace", "execute")
    /\ Before("workspace", "cleanup")
    /\ Before("execute", "decode")
    /\ Before("cleanup", "decode")
    /\ Before("decode", "tag")

C9_Witness ==
    /\ pc = "loop"
    /\ stages = <<"resolve", "workspace", "execute", "cleanup", "decode", "tag">>
    /\ results # <<>>

\* C10: an invocation never goes back and nothing is tried again: within
\* one call each username gets at most one identity lookup, one scratch
\* directory and one subprocess, also when its invocation fails.
C10_NoRetry ==
    /\ \A a, b \in 1..Len(stages) : a # b => stages[a] # stages[b]
    /\ \A u \in Expressions :
         /\ calls[u].lookups <= 1
         /\ calls[u].mkdirs <= calls[u].lookups
         /\ calls[u].spawns <= calls[u].mkdirs
    /\ nextDir <= Cardinality(Begun)
    /\ (pc = "loop" \/ Returned) => Cardinality(Begun) = idx - 1

C10_Witness ==
    /\ Returned
    /\ \E u, v \in Range(users) :
         /\ calls[u].outcome = "exit status"
         /\ calls[u].lookups = 1 /\ calls[u].mkdirs = 1 /\ calls[u].spawns = 1
         /\ calls[v].outcome = "lookup"
         /\ calls[v].lookups = 1 /\ calls[v].mkdirs = 0

\* A document json.Unmarshal decodes into []map[string]string without an
\* error: JSON, and every value a string.
WellFormed(doc) ==
    /\ doc.syntax
    /\ \A n \in 1..Len(doc.items) : \A k \in DOMAIN doc.items[n] :
         doc.items[n][k].t = "string"

\* The usernames the loop is done with.
Done == {u \in Range(users) : Position(u) < idx}

\* The returned rows that carry the username, in the order of the results.
RowsOf(u) ==
    LET mine(row) == row["user"] = u
    IN  SelectSeq(results, mine)

\* The records of the document the username's process wrote, each with the
\* username.
RecordsOf(u) ==
    LET rows == RowsOfDocument(calls[u].output)
    IN  [n \in 1..Len(rows) |-> WithUser(rows[n], u)]

\* C11: decoding is all or nothing for each user: either every record of the
\* user's output is in the results or none is, and none is when the output
\* is malformed in any way.
C11_DecodeAllOrNothing ==
    \A u \in Range(users) :
        /\ calls[u].fate # "exited" => RowsOf(u) = <<>>
        /\ calls[u].fate = "exited" =>
             /\ RowsOf(u) = <<>> \/ RowsOf(u) = RecordsOf(u)
             /\ ~WellFormed(calls[u].output) => RowsOf(u) = <<>>

C11_Witness ==
    /\ Returned
    /\ \E u, v \in Range(users) :
         /\ calls[u].outcome = "unmarshalling json"
         /\ calls[u].output.syntax
         /\ Len(calls[u].output.items) = 2
         /\ RowsOf(u) = <<>>
         /\ calls[v].outcome = "nil"
         /\ Len(RowsOf(v)) = 2

\* C13: the merge keeps each user's rows as decoded: for every user the loop
\* is done with, the returned rows that carry the username are the records
\* of its output, in the same order and number, if its run and decoding
\* succeeded, and none otherwise.
C13_MergePreservesPerUserOrder ==
    (pc \in {"loop", "returned"}) =>
        \A u \in Done :
            RowsOf(u) = IF calls[u].outcome = "nil" THEN RecordsOf(u) ELSE <<>>

C13_Witness ==
    /\ Returned
    /\ \E u, v \in Range(users) :
         /\ Position(u) < Position(v)
         /\ Len(RowsOf(u)) = 2
         /\ RowsOf(u)[1] # RowsOf(u)[2]
         /\ Len(RowsOf(v)) = 1
         /\ Len(results) = 3

\* The permission digit of a mode for the users that are neither the owner
\* nor in the group.
OthersDigit(mode) == CASE mode = "0700" -> 0 [] mode = "0755" -> 5

\* Read is 4, write is 2, traverse is 1.
OthersMayReadAndTraverse(mode) == OthersDigit(mode) \in {5, 7}
OthersMayWrite(mode) == OthersDigit(mode) \in {2, 3, 6, 7}

C16_CancellationSkipsRemainingUsers ==
    /\ \A u \in Range(users) :
         calls[u].afterCancel =>
             /\ calls[u].spawns = 0
             /\ calls[u].outcome # "nil"
             /\ RowsOf(u) = <<>>
    /\ (proc.state = "running" /\ cancelled) => ~calls[proc.user].afterCancel
    /\ (Returned /\ cancelled /\ users # <<>>) =>
         /\ retErr = "nil"
         /\ Begun = Range(users)
         /\ \A u \in Range(users) :
              (~calls[u].afterCancel /\ calls[u].outcome = "nil")
                  => RowsOf(u) = RecordsOf(u)

C16_Witness ==
    /\ Returned
    /\ cancelled
    /\ \E u, v \in Range(users) :
         /\ ~calls[u].afterCancel
         /\ calls[u].outcome = "nil"
         /\ RowsOf(u) # <<>>
         /\ calls[v].afterCancel
         /\ calls[v].outcome = "context done"
         /\ calls[v].mkdirs = 1

\* C17: a scratch directory is never removed while the subprocess that runs
\* in it is running: a running subprocess has its directory, and the
\* directory of an invocation is gone only once its subprocess, if any, has
\* exited or been killed, also at the deadline and on cancellation.
C17_WorkspaceOutlivesProcess ==
    /\ proc.state = "running" => proc.cwd = dir /\ dir \in DOMAIN dirs
    /\ (dir # NoDir /\ dir \notin DOMAIN dirs) =>
         proc.state \in {"none", "exited", "killed"}

C17_Witness ==
    /\ pc = "parsed"
    /\ proc.state = "killed"
    /\ calls[user].fate = "deadline"
    /\ dir # NoDir
    /\ dir \notin DOMAIN dirs

\* C18: for a username whose identity lookup fails no scratch directory is
\* made and no subprocess is spawned: the invocation goes through no stage,
\* is skipped, and generate goes on to the next username.
C18_UnknownUserSkipped ==
    \A u \in Range(users) :
        calls[u].resolved = "unknown" =>
            /\ calls[u].mkdirs = 0
            /\ calls[u].spawns = 0
            /\ (InInvocation /\ user = u) =>
                 /\ stages = <<>>
                 /\ dir = NoDir
                 /\ proc.state = "none"
                 /\ pc \in {"exec return", "parsed", "body"}
            /\ calls[u].outcome \in {"none", "lookup"}
            /\ RowsOf(u) = <<>>
            /\ Returned => retErr = "nil" /\ Begun = Range(users)

C18_Witness ==
    /\ Returned
    /\ nextDir = 1
    /\ \E u, v \in Range(users) :
         /\ Position(u) < Position(v)
         /\ calls[u].resolved = "unknown"
         /\ calls[u].outcome = "lookup"
         /\ calls[v].outcome = "nil"
         /\ RowsOf(v) # <<>>

\* C12: when the subprocess exits with a non-zero status the run returns an
\* error that carries the captured standard error, and no output, so the
\* user contributes no row even when its standard output held well-formed
\* records; standard output and standard error are captured apart, each
\* buffer holding what the process wrote to that stream and nothing else.
C12_NonZeroExitIsAnError ==
    /\ \A u \in Range(users) :
         calls[u].status = "nonzero" =>
             /\ calls[u].outcome \in {"none", "exit status"}
             /\ RowsOf(u) = <<>>
             /\ (InInvocation /\ user = u) =>
                  /\ err = "exit status"
                  /\ errText = calls[u].errOutput
                  /\ pc \in {"parsed", "body"} => outBytes = NoBytes
                  /\ pc = "body" => osqueryResults = <<>>
    /\ (InInvocation /\ calls[user].fate = "exited") =>
         /\ stdout = calls[user].output
         /\ stderr = calls[user].errOutput

C12_Witness ==
    /\ pc = "body"
    /\ calls[user].status = "nonzero"
    /\ err = "exit status"
    /\ errText = <<"E">>
    /\ WellFormed(stdout)
    /\ Len(stdout.items) = 2
    /\ osqueryResults = <<>>

\* ------------------------------------------------------------------- C14

\* Call c is in an invocation that has its scratch workspace.
InUse(c) ==
    /\ gen[c].dir # NoDir
    /\ gen[c].pc \in {"chmod", "run", "wait", "exec return"}

\* The rows the first k successful invocations of call c are expected to
\* contribute: those their own processes wrote, each with the username.
RECURSIVE CExpectedRows(_, _)
CExpectedRows(c, k) ==
    IF k = 0 THEN <<>>
    ELSE LET o == gen[c].outputs[k]
             rows == RowsOfDocument(o.output)
         IN  CExpectedRows(c, k - 1) \o
             [n \in 1..Len(rows) |-> WithUser(rows[n], o.user)]

\* C14: under any interleaving of concurrent generate calls, also for the
\* same username, the workspace of an invocation is a directory that this
\* invocation made, no two invocations have the same one, a directory
\* exists only as the workspace of the invocation that made it (so none is
\* used again after its removal), a subprocess runs in the workspace of
\* its own invocation, and the rows of a call are those its own
\* invocations produced.
C14_OwnWorkspaceAndSubprocess ==
    /\ \A c \in Calls :
         InUse(c) =>
            /\ gen[c].dir \in DOMAIN fs
            /\ fs[gen[c].dir].maker = <<c, gen[c].idx>>
    /\ \A c, d \in Calls :
         (c # d /\ InUse(c) /\ InUse(d)) => gen[c].dir # gen[d].dir
    /\ \A name \in DOMAIN fs :
         LET c == fs[name].maker[1]
         IN  /\ InUse(c)
             /\ gen[c].dir = name
             /\ gen[c].idx = fs[name].maker[2]
    /\ \A c \in Calls :
         gen[c].proc.state = "running" =>
            /\ InUse(c)
            /\ gen[c].proc.cwd = gen[c].dir
            /\ gen[c].proc.user = CUser(c)
    /\ \A c \in Calls :
         gen[c].pc \in {"loop", "returned"} =>
            gen[c].results = CExpectedRows(c, Len(gen[c].outputs))

\* Two calls run a subprocess for the same username at the same time, each
\* in a directory of its own, next to a call that has returned rows.
C14_Witness ==
    \E c, d \in Calls :
       /\ c # d
       /\ gen[c].proc.state = "running"
       /\ gen[d].proc.state = "running"
       /\ gen[c].proc.user = gen[d].proc.user
       /\ gen[c].proc.cwd # gen[d].proc.cwd
       /\ gen[c].results # <<>>


=============================================================================
